---- MODULE Spec2Model ----
(***************************************************************************)
(* Model of gui.py, the Tkinter front end of the Clippy agent.             *)
(*                                                                         *)
(* Text is a sequence of one-character strings, so that str.strip,         *)
(* str.lower, the "in" substring test, int parsing and int formatting are  *)
(* computed character by character, as Python and Tk compute them.         *)
(* The character U+2026 (horizontal ellipsis) is written "ELLIPSIS".       *)
(***************************************************************************)
EXTENDS Naturals, Integers, Sequences, FiniteSets, TLC

VARIABLES gui, threads, obs

vars == <<gui, threads, obs>>

(***************************************************************************)
(* Bounds of the model                                                     *)
(***************************************************************************)
\* worker threads alive at the same time (threading.Thread has no limit)
MaxThreads == 2
\* ClippyAgent objects constructed during a run
MaxAgents == 2
\* lines of a batch file
MaxLines == 3
\* digits of a numeral typed into the max-clip spinbox
MaxDigits == 2
\* chunks a status text is assembled from in SpecColor
MaxChunks == 2
\* log records passed to the sink during a run
MaxRecords == 2

(***************************************************************************)
(* Text                                                                    *)
(***************************************************************************)
Whitespace == {" ", "\t", "\n", "\r"}

Upper == <<"A","B","C","D","E","F","G","H","I","J","K","L","M",
           "N","O","P","Q","R","S","T","U","V","W","X","Y","Z">>

Lower == <<"a","b","c","d","e","f","g","h","i","j","k","l","m",
           "n","o","p","q","r","s","t","u","v","w","x","y","z">>

\* the lower-case letter of each upper-case letter
LowerOf == [c \in {Upper[i] : i \in 1..26} |-> Lower[CHOOSE i \in 1..26 : Upper[i] = c]]

\* str.lower() on one character
lower_char(c) == IF c \in DOMAIN LowerOf THEN LowerOf[c] ELSE c

\* str.lower()
lower(text) == [i \in 1..Len(text) |-> lower_char(text[i])]

\* needle in text
contains(text, needle) ==
  \E k \in 0..(Len(text) - Len(needle)) :
    \A j \in 1..Len(needle) : text[k + j] = needle[j]

RECURSIVE lstrip(_)
lstrip(text) ==
  IF text = <<>> THEN <<>>
  ELSE IF Head(text) \in Whitespace THEN lstrip(Tail(text))
  ELSE text

RECURSIVE rstrip(_)
rstrip(text) ==
  IF text = <<>> THEN <<>>
  ELSE IF text[Len(text)] \in Whitespace THEN rstrip(SubSeq(text, 1, Len(text) - 1))
  ELSE text

\* the text as it is, not stripped
strip_omitted(text) == text

\* str.strip()
strip(text) == rstrip(lstrip(text))

Digits == <<"0","1","2","3","4","5","6","7","8","9">>

IsDigit(c) == \E i \in 1..10 : Digits[i] = c

DigitVal(c) == (CHOOSE i \in 1..10 : Digits[i] = c) - 1

RECURSIVE NatVal(_)
NatVal(ds) ==
  IF ds = <<>> THEN 0
  ELSE 10 * NatVal(SubSeq(ds, 1, Len(ds) - 1)) + DigitVal(ds[Len(ds)])

RECURSIVE NatStr(_)
NatStr(n) ==
  IF n < 10 THEN <<Digits[n + 1]>>
  ELSE NatStr(n \div 10) \o <<Digits[(n % 10) + 1]>>

\* str(n) for an int, as Tk stores a value written with IntVar.set / as an
\* f-string formats it
str(n) == IF n < 0 THEN <<"-">> \o NatStr(0 - n) ELSE NatStr(n)

\* IntVar.get(): Tk's getint on the variable's text.  Surrounding white
\* space and one sign are accepted; anything else raises TclError
\* (ok = FALSE).  The inputs of the model are decimal, without "." or "e",
\* so the getdouble fallback of IntVar.get fails exactly when getint does.
IntVar_get(text) ==
  LET t      == strip(text)
      signed == t # <<>> /\ Head(t) \in {"-", "+"}
      ds     == IF signed THEN Tail(t) ELSE t
      ok     == ds # <<>> /\ \A i \in 1..Len(ds) : IsDigit(ds[i])
  IN  [ok  |-> ok,
       val |-> IF ~ok THEN 0
               ELSE IF signed /\ Head(t) = "-" THEN 0 - NatVal(ds)
               ELSE NatVal(ds)]

(***************************************************************************)
(* Literals of gui.py                                                      *)
(***************************************************************************)
DefaultConfig == <<"c","o","n","f","i","g",".","y","a","m","l">>

Ready == <<"R","e","a","d","y">>

ProcessingSingle ==
  <<"P","r","o","c","e","s","s","i","n","g"," ","s","i","n","g","l","e"," ",
    "v","i","d","e","o","ELLIPSIS">>

ProcessingBatch(n) ==
  <<"P","r","o","c","e","s","s","i","n","g"," ","b","a","t","c","h"," ","(">>
  \o str(n) \o <<" ","i","t","e","m","s",")","ELLIPSIS">>

SchedulerRunning ==
  <<"S","c","h","e","d","u","l","e","r"," ","r","u","n","n","i","n","g">>

SchedulerStopped ==
  <<"S","c","h","e","d","u","l","e","r"," ","s","t","o","p","p","e","d">>

Green == "#10b981"

Amber == "#f59e0b"

Red == "#ef4444"

\* self.buttons, in the order _add_button appended them
NumButtons == 9

BtnBrowseConfig == 1

BtnBrowseVideo == 2

BtnProcessVideo == 3

BtnBrowseBatch == 4

BtnProcessBatch == 5

BtnStartScheduler == 6

BtnStopScheduler == 7

BtnClear == 8

BtnCopy == 9

\* the except branch of _apply_clip_preferences
FallbackClips == 5

(***************************************************************************)
(* State                                                                   *)
(*                                                                         *)
(* gui     the ClippyGUI object: its attributes, its Tk variables and      *)
(*         widgets, and the two collaborators it owns or registers with    *)
(*         (the loguru logger's sinks, the ClippyAgent objects);           *)
(*         log_widget is the text of the log pane, after the callbacks     *)
(*         widget.after(0, ...) has put on Tk's queue and Tk has not run   *)
(*         yet, oldest first, emitted the records the sink was called with *)
(* threads the worker threads started by _run_async                        *)
(* obs     what the last UI event did that leaves no trace in gui: the     *)
(*         entry text the handler read (url_var, batch_file_var; these and *)
(*         title_var are written by the user only and read by one handler, *)
(*         so they are inputs of that handler), the file it read, the      *)
(*         dialog it showed, the calls it made                             *)
(***************************************************************************)
NORMAL == "normal"

DISABLED == "disabled"

\* the value of a configuration key: {} when the key is absent, {v} when set
Absent == {}

config_get(cfg, default) == IF cfg = Absent THEN default ELSE CHOOSE v \in cfg : TRUE

NoDialog == [kind |-> "none", title |-> "", message |-> <<>>]

NoCall == [op |-> "none", source |-> <<>>, title |-> <<>>, entries |-> <<>>]

NoObs ==
  [handler |-> "none", entry |-> <<>>, readable |-> FALSE, file |-> <<>>,
   dialog |-> NoDialog, ensure |-> "none", applied |-> FALSE, clips |-> <<>>,
   call |-> NoCall, dispatched |-> FALSE, raised |-> FALSE]

DeadThread ==
  [pc |-> "dead", i |-> 0, raised |-> FALSE, exc |-> <<>>,
   dialog |-> NoDialog, logged |-> ""]

Alive == {t \in 1..MaxThreads : threads[t].pc # "dead"}

\* the object after ClippyGUI.__init__ and _build_ui
InitGui ==
  [agent             |-> 0,
   agent_config_path |-> <<>>,
   log_sink_id       |-> 0,
   config_file_var   |-> DefaultConfig,
   max_clips_var     |-> str(5),
   status_var        |-> Ready,
   status_dot        |-> Green,
   progress_var      |-> 0,
   buttons           |-> [b \in 1..NumButtons |-> NORMAL],
   made              |-> 0,
   max_highlights    |-> Absent,
   started           |-> {},
   sinks             |-> {},
   added             |-> 0,
   exc               |-> FALSE,
   log_widget        |-> <<>>,
   after             |-> <<>>,
   emitted           |-> <<>>,
   clipboard         |-> <<>>]

Init ==
  /\ gui = InitGui
  /\ threads = [t \in 1..MaxThreads |-> DeadThread]
  /\ obs = NoObs

(***************************************************************************)
(* Methods of ClippyGUI, as functions of the object                        *)
(***************************************************************************)
\* the colour when "ready" is tested before "error" and "fail"
status_color_ready_first(text) ==
  LET low == lower(text)
  IN  IF contains(low, <<"r","e","a","d","y">>) THEN Green
      ELSE IF \E word \in {<<"e","r","r","o","r">>, <<"f","a","i","l">>} : contains(low, word)
           THEN Red
           ELSE Amber

\* the fill colour _update_status_dot computes
status_color(text) ==
  LET low   == lower(text)
      color == IF contains(low, <<"r","e","a","d","y">>) THEN Green ELSE Amber
  IN  IF \E word \in {<<"e","r","r","o","r">>, <<"f","a","i","l">>} : contains(low, word)
      THEN Red
      ELSE color

_update_status_dot(g, text) == [g EXCEPT !.status_dot = status_color(text)]

_set_status(g, text) == _update_status_dot([g EXCEPT !.status_var = text], text)

_toggle_buttons(g, state) == [g EXCEPT !.buttons = [b \in 1..NumButtons |-> state]]

\* self.config_file_var.get().strip() or "config.yaml"
config_path_of(g) ==
  IF strip(g.config_file_var) # <<>> THEN strip(g.config_file_var) ELSE DefaultConfig

\* an agent is never taken to be the one asked for
same_agent_never(g, config_path) == FALSE

\* self.agent and self.agent_config_path == config_path
same_agent(g, config_path) == g.agent # 0 /\ g.agent_config_path = config_path

\* the sink inserting at the start of the text
_write_at_start(g) ==
  [g EXCEPT !.log_widget = Head(g.after) \o @, !.after = Tail(@)]

\* TextboxLogHandler._write, run by Tk for the oldest callback on its queue:
\* insert(tk.END, text)
_write(g) ==
  [g EXCEPT !.log_widget = @ \o Head(g.after), !.after = Tail(@)]

\* TextboxLogHandler.__call__: the text is queued for the UI thread
__call__(g, message) ==
  [g EXCEPT !.after = Append(@, strip(message) \o <<"\n">>),
            !.emitted = Append(@, message)]

\* the logger passes a record to the sink that is added and not removed
logger_emit(g, message) == IF g.sinks # {} THEN __call__(g, message) ELSE g

\* the record logger.error makes of a message with the format of the sink,
\* the time left out
error_record(message) ==
  <<"E","R","R","O","R"," ","|"," ">> \o message \o <<"\n">>

\* loaded: the value of video.max_highlights in the configuration that
\* ClippyAgent(config_path) loads.  The default passed to config.get is
\* evaluated first: IntVar.get raises TclError on a text that is no number,
\* after the agent and its path were assigned and before the sink is added.
_ensure_agent(g, loaded) ==
  LET config_path == config_path_of(g)
      default     == IntVar_get(g.max_clips_var)
      g1 == [g EXCEPT !.agent = g.made + 1,
                      !.made = g.made + 1,
                      !.max_highlights = loaded,
                      !.agent_config_path = config_path]
      g2 == [g1 EXCEPT !.max_clips_var = str(config_get(loaded, default.val))]
      g3 == IF g2.log_sink_id # 0
            THEN [g2 EXCEPT !.sinks = g2.sinks \ {g2.log_sink_id}]
            ELSE g2
  IN  IF same_agent(g, config_path) THEN g
      ELSE IF ~default.ok THEN [g1 EXCEPT !.exc = TRUE]
      ELSE [g3 EXCEPT !.log_sink_id = g3.added + 1,
                      !.sinks = g3.sinks \cup {g3.added + 1},
                      !.added = g3.added + 1]

\* the count without the floor of 1
clip_count_unfloored(got) == IF got.ok THEN got.val ELSE FallbackClips

\* max(1, int(...)), or 5 when IntVar.get raised
clip_count(got) ==
  IF got.ok
  THEN (IF got.val > 1 THEN got.val ELSE 1)
  ELSE FallbackClips

\* the preference written to the entry only
_apply_clip_preferences_entry_only(g) ==
  IF g.agent = 0 THEN g
  ELSE [g EXCEPT !.max_clips_var = str(clip_count(IntVar_get(g.max_clips_var)))]

_apply_clip_preferences(g) ==
  LET max_clips == clip_count(IntVar_get(g.max_clips_var))
  IN  IF g.agent = 0 THEN g
      ELSE [g EXCEPT !.max_clips_var = str(max_clips),
                     !.max_highlights = {max_clips}]

\* threading.Thread(target=task, daemon=True).start()
_run_async ==
  LET t == CHOOSE u \in 1..MaxThreads :
             /\ threads[u].pc = "dead"
             /\ \A v \in 1..MaxThreads : threads[v].pc = "dead" => u <= v
  IN  [threads EXCEPT ![t] = [DeadThread EXCEPT !.pc = "run"]]

CanSpawn == \E t \in 1..MaxThreads : threads[t].pc = "dead"

CanConstruct == gui.made < MaxAgents

\* whether _ensure_agent would construct for the current config entry
NeedsAgent == ~same_agent(gui, config_path_of(gui))

ensure_outcome(g0, g1) ==
  IF g1.exc THEN "raised"
  ELSE IF g1.made # g0.made THEN "constructed"
  ELSE "reused"

(***************************************************************************)
(* Inputs: what the user can leave in an entry, what a file can hold       *)
(***************************************************************************)
OtherConfig == <<"b",".","y","a","m","l">>

\* texts of the config entry: blank, padded default, another file
ConfigTexts == {<<" ">>, <<" ">> \o OtherConfig}

\* values of video.max_highlights a loaded configuration can hold
LoadedValues == {Absent, {5}}

Video == <<"v",".","m","p","4">>

\* texts of the URL entry
Sources == {<<>>, <<" ", "\t">>, <<"\n">>, Video, <<" ">> \o Video \o <<" ", "\n">>}

\* texts of the title entry
Titles == {<<" ">>, <<" ", "T">>}

\* texts of the max-clip spinbox
ClipTexts == {<<"-", "2">>, <<"x">>, <<"3">>}

ClipDigits == {"0", "1", "7"}

RECURSIVE DigitSeqs(_)
DigitSeqs(n) ==
  IF n = 0 THEN {<<>>}
  ELSE {<<d>> \o rest : d \in ClipDigits, rest \in DigitSeqs(n - 1)}

\* decimal numerals of at most MaxDigits digits, without a leading zero
Numerals ==
  {ds \in UNION {DigitSeqs(n) : n \in 1..MaxDigits} : Len(ds) = 1 \/ Head(ds) # "0"}

\* every text of the max-clip spinbox: numerals, signed, padded, and not numbers
AllClipTexts ==
  Numerals
    \cup {<<"-">> \o ds : ds \in Numerals}
    \cup {<<" ">> \o ds \o <<" ">> : ds \in Numerals}
    \cup {ds \o <<"x">> : ds \in Numerals}
    \cup {<<>>, <<" ">>, <<"-">>, <<"x">>}

\* str(exc) of what an agent operation raises
Failures == {<<"b","o","o","m">>}

ListFile == <<"l","i","s","t">>

\* texts of the batch-file entry
BatchPaths == {<<>>, <<" ">>, <<" ">> \o ListFile}

\* a line as f.readlines() returns it, with its line end
LineTexts == {<<"\n">>, <<"a", "\n">>, <<" ", " ", "b", " ", "\t", "\n">>}

RECURSIVE FilesOfLen(_)
FilesOfLen(n) ==
  IF n = 0 THEN {<<>>}
  ELSE {<<line>> \o rest : line \in LineTexts, rest \in FilesOfLen(n - 1)}

ExampleFile == << <<"a", "\n">>, <<"\n">>, <<" ", " ", "b", " ", "\t", "\n">>, <<"c", "\n">> >>

\* the files of at most MaxLines lines, and the one of four lines
BatchFiles == UNION {FilesOfLen(n) : n \in 0..MaxLines} \cup {ExampleFile}

\* the inputs of a specification whose subject is not the input
OneSource == {Video}

OneTitle == {<<" ">>}

OnePath == {ListFile}

OneFile == {<< <<"a", "\n">>, <<"\n">>, <<"a", "\n">> >>}

(***************************************************************************)
(* Events of the UI thread.  Tk runs one handler at a time, to its end.    *)
(***************************************************************************)
\* the config Entry is edited
TypeConfig ==
  \E text \in ConfigTexts :
    /\ gui' = [gui EXCEPT !.config_file_var = text]
    /\ obs' = [NoObs EXCEPT !.handler = "type"]
    /\ UNCHANGED threads

\* the max-clip Spinbox is edited
TypeMaxClips(texts) ==
  \E text \in texts :
    /\ gui' = [gui EXCEPT !.max_clips_var = text]
    /\ obs' = [NoObs EXCEPT !.handler = "type"]
    /\ UNCHANGED threads

\* filename: what the file dialog returns, empty when it is cancelled
_select_config ==
  /\ gui.buttons[BtnBrowseConfig] = NORMAL
  /\ \E filename \in {<<>>, DefaultConfig} :
       gui' = IF filename # <<>> THEN [gui EXCEPT !.config_file_var = filename] ELSE gui
  /\ obs' = [NoObs EXCEPT !.handler = "select"]
  /\ UNCHANGED threads

_on_process_single(sources, titles, loadeds) ==
  /\ gui.buttons[BtnProcessVideo] = NORMAL
  /\ \E url \in sources :
       LET source == strip(url)
           o0 == [NoObs EXCEPT !.handler = "single", !.entry = url]
       IN  IF source = <<>>
           THEN /\ obs' = [o0 EXCEPT !.dialog = [kind |-> "warning",
                                                 title |-> "Missing input",
                                                 message |-> <<>>]]
                /\ UNCHANGED <<gui, threads>>
           ELSE \E title_text \in titles, loaded \in loadeds :
                LET g1 == _ensure_agent(gui, loaded)
                    g2 == _set_status(g1, ProcessingSingle)
                    g3 == _toggle_buttons(g2, DISABLED)
                    g4 == [g3 EXCEPT !.progress_var = 25]
                    g5 == _apply_clip_preferences(g4)
                IN  /\ NeedsAgent => CanConstruct
                    /\ IF g1.exc
                       THEN /\ gui' = [g1 EXCEPT !.exc = FALSE]
                            /\ obs' = [o0 EXCEPT !.ensure = "raised", !.raised = TRUE]
                            /\ UNCHANGED threads
                       ELSE /\ CanSpawn
                            /\ gui' = g5
                            /\ threads' = _run_async
                            /\ obs' = [o0 EXCEPT !.ensure = ensure_outcome(gui, g1),
                                                 !.applied = TRUE,
                                                 !.clips = g4.max_clips_var,
                                                 !.call = [op |-> "process_video",
                                                           source |-> source,
                                                           title |-> strip(title_text),
                                                           entries |-> <<>>],
                                                 !.dispatched = TRUE]

\* [line.strip() for line in lines if line]
RECURSIVE parse_entries_keep_blank(_)
parse_entries_keep_blank(lines) ==
  IF lines = <<>> THEN <<>>
  ELSE IF Head(lines) # <<>>
       THEN <<strip(Head(lines))>> \o parse_entries_keep_blank(Tail(lines))
       ELSE parse_entries_keep_blank(Tail(lines))

\* [line for line in lines if line.strip()]
RECURSIVE parse_entries_unstripped(_)
parse_entries_unstripped(lines) ==
  IF lines = <<>> THEN <<>>
  ELSE IF strip(Head(lines)) # <<>>
       THEN <<Head(lines)>> \o parse_entries_unstripped(Tail(lines))
       ELSE parse_entries_unstripped(Tail(lines))

\* [line.strip() for line in lines if line.strip()]
RECURSIVE parse_entries(_)
parse_entries(lines) ==
  IF lines = <<>> THEN <<>>
  ELSE IF strip(Head(lines)) # <<>>
       THEN <<strip(Head(lines))>> \o parse_entries(Tail(lines))
       ELSE parse_entries(Tail(lines))

\* the status set before the entries are tested
process_entries_status_first(o1, lines, loadeds) ==
  LET entries == parse_entries(lines)
  IN  IF entries = <<>>
      THEN /\ obs' = [o1 EXCEPT !.dialog = [kind |-> "warning",
                                            title |-> "Empty batch",
                                            message |-> <<>>]]
           /\ gui' = _set_status(gui, ProcessingBatch(0))
           /\ UNCHANGED threads
      ELSE \E loaded \in loadeds :
           LET g1 == _ensure_agent(gui, loaded)
               g2 == _set_status(g1, ProcessingBatch(Len(entries)))
               g3 == _toggle_buttons(g2, DISABLED)
               g4 == [g3 EXCEPT !.progress_var = 35]
               g5 == _apply_clip_preferences(g4)
           IN  /\ NeedsAgent => CanConstruct
               /\ IF g1.exc
                  THEN /\ gui' = [g1 EXCEPT !.exc = FALSE]
                       /\ obs' = [o1 EXCEPT !.ensure = "raised", !.raised = TRUE]
                       /\ UNCHANGED threads
                  ELSE /\ CanSpawn
                       /\ gui' = g5
                       /\ threads' = _run_async
                       /\ obs' = [o1 EXCEPT !.ensure = ensure_outcome(gui, g1),
                                            !.applied = TRUE,
                                            !.clips = g4.max_clips_var,
                                            !.call = [op |-> "batch_process",
                                                      source |-> <<>>,
                                                      title |-> <<>>,
                                                      entries |-> entries],
                                            !.dispatched = TRUE]

\* the body of _on_process_batch once the file has been read
process_entries(o1, lines, loadeds) ==
  LET entries == parse_entries(lines)
  IN  IF entries = <<>>
      THEN /\ obs' = [o1 EXCEPT !.dialog = [kind |-> "warning",
                                            title |-> "Empty batch",
                                            message |-> <<>>]]
           /\ UNCHANGED <<gui, threads>>
      ELSE \E loaded \in loadeds :
           LET g1 == _ensure_agent(gui, loaded)
               g2 == _set_status(g1, ProcessingBatch(Len(entries)))
               g3 == _toggle_buttons(g2, DISABLED)
               g4 == [g3 EXCEPT !.progress_var = 35]
               g5 == _apply_clip_preferences(g4)
           IN  /\ NeedsAgent => CanConstruct
               /\ IF g1.exc
                  THEN /\ gui' = [g1 EXCEPT !.exc = FALSE]
                       /\ obs' = [o1 EXCEPT !.ensure = "raised", !.raised = TRUE]
                       /\ UNCHANGED threads
                  ELSE /\ CanSpawn
                       /\ gui' = g5
                       /\ threads' = _run_async
                       /\ obs' = [o1 EXCEPT !.ensure = ensure_outcome(gui, g1),
                                            !.applied = TRUE,
                                            !.clips = g4.max_clips_var,
                                            !.call = [op |-> "batch_process",
                                                      source |-> <<>>,
                                                      title |-> <<>>,
                                                      entries |-> entries],
                                            !.dispatched = TRUE]

\* readable: whether open() and readlines() succeed
_on_process_batch(paths, readables, files, loadeds) ==
  /\ gui.buttons[BtnProcessBatch] = NORMAL
  /\ \E path \in paths :
       LET batch_file == strip(path)
           o0 == [NoObs EXCEPT !.handler = "batch", !.entry = path]
       IN  IF batch_file = <<>>
           THEN /\ obs' = [o0 EXCEPT !.dialog = [kind |-> "warning",
                                                 title |-> "Missing batch file",
                                                 message |-> <<>>]]
                /\ UNCHANGED <<gui, threads>>
           ELSE \E readable \in readables :
                IF ~readable
                THEN /\ obs' = [o0 EXCEPT !.dialog = [kind |-> "error",
                                                      title |-> "Error",
                                                      message |-> <<>>]]
                     /\ UNCHANGED <<gui, threads>>
                ELSE \E lines \in files :
                     process_entries([o0 EXCEPT !.readable = TRUE, !.file = lines],
                                     lines, loadeds)

_on_start_scheduler(loadeds) ==
  /\ gui.buttons[BtnStartScheduler] = NORMAL
  /\ NeedsAgent => CanConstruct
  /\ \E loaded \in loadeds :
       LET o0 == [NoObs EXCEPT !.handler = "start"]
           g1 == _ensure_agent(gui, loaded)
           g2 == _apply_clip_preferences(g1)
           g3 == [g2 EXCEPT !.started = g2.started \cup {g2.agent}]
           g4 == _set_status(g3, SchedulerRunning)
           g5 == [g4 EXCEPT !.progress_var = 100]
       IN  IF g1.exc
           THEN /\ gui' = [g1 EXCEPT !.exc = FALSE]
                /\ obs' = [o0 EXCEPT !.ensure = "raised", !.raised = TRUE]
           ELSE /\ gui' = g5
                /\ obs' = [o0 EXCEPT !.ensure = ensure_outcome(gui, g1),
                                     !.applied = TRUE,
                                     !.clips = g1.max_clips_var,
                                     !.call = [NoCall EXCEPT !.op = "scheduler.start"]]
  /\ UNCHANGED threads

\* the stop handler without its test of self.agent
_on_stop_scheduler_unguarded ==
  /\ gui.buttons[BtnStopScheduler] = NORMAL
  /\ gui' = [_set_status([gui EXCEPT !.started = gui.started \ {gui.agent}],
                         SchedulerStopped)
             EXCEPT !.progress_var = 0]
  /\ obs' = [NoObs EXCEPT !.handler = "stop",
                          !.call = [NoCall EXCEPT !.op = "scheduler.stop"]]
  /\ UNCHANGED threads

_on_stop_scheduler ==
  /\ gui.buttons[BtnStopScheduler] = NORMAL
  /\ LET o0 == [NoObs EXCEPT !.handler = "stop"]
         g1 == [gui EXCEPT !.started = gui.started \ {gui.agent}]
         g2 == _set_status(g1, SchedulerStopped)
         g3 == [g2 EXCEPT !.progress_var = 0]
     IN  IF gui.agent # 0
         THEN /\ gui' = g3
              /\ obs' = [o0 EXCEPT !.call = [NoCall EXCEPT !.op = "scheduler.stop"]]
         ELSE /\ gui' = gui
              /\ obs' = o0
  /\ UNCHANGED threads

_clear_logs ==
  /\ gui.buttons[BtnClear] = NORMAL
  /\ gui' = [gui EXCEPT !.log_widget = <<>>]
  /\ obs' = [NoObs EXCEPT !.handler = "clear"]
  /\ UNCHANGED threads

_copy_logs ==
  /\ gui.buttons[BtnCopy] = NORMAL
  /\ LET content == strip(gui.log_widget)
         o0 == [NoObs EXCEPT !.handler = "copy"]
     IN  IF content = <<>>
         THEN /\ gui' = gui
              /\ obs' = [o0 EXCEPT !.dialog = [kind |-> "info",
                                               title |-> "Nothing to copy",
                                               message |-> <<>>]]
         ELSE /\ gui' = [gui EXCEPT !.clipboard = content]
              /\ obs' = [o0 EXCEPT !.dialog = [kind |-> "info",
                                               title |-> "Copied",
                                               message |-> <<>>]]
  /\ UNCHANGED threads

\* Tk runs the oldest callback that widget.after(0, ...) queued
RunAfter ==
  /\ gui.after # <<>>
  /\ gui' = _write(gui)
  /\ UNCHANGED <<threads, obs>>

(***************************************************************************)
(* The worker thread of _run_async: def task().  Each Tk call it makes is  *)
(* one step; the UI thread's handlers run between them.                    *)
(***************************************************************************)
\* asyncio.run(coro) returns
TaskReturns(t) ==
  /\ threads[t].pc = "run"
  /\ threads' = [threads EXCEPT ![t].pc = "status_set"]
  /\ UNCHANGED <<gui, obs>>

\* records passed to the sink or about to be: one for each failure
CanEmit ==
  Len(gui.emitted)
    + Cardinality({t \in 1..MaxThreads : threads[t].pc \in {"showerror", "log_error"}})
    < MaxRecords

\* asyncio.run(coro) raises
TaskRaises(t) ==
  /\ threads[t].pc = "run"
  /\ CanEmit
  /\ \E exc \in Failures :
       threads' = [threads EXCEPT ![t].pc = "showerror", ![t].raised = TRUE, ![t].exc = exc]
  /\ UNCHANGED <<gui, obs>>

\* messagebox.showerror("Error", str(exc))
TaskShowError(t) ==
  /\ threads[t].pc = "showerror"
  /\ threads' = [threads EXCEPT ![t].pc = "log_error",
                                ![t].dialog = [kind |-> "error", title |-> "Error",
                                               message |-> threads[t].exc]]
  /\ UNCHANGED <<gui, obs>>

\* logger.error(f"GUI task error: {exc}")
TaskLogError(t) ==
  /\ threads[t].pc = "log_error"
  /\ threads' = [threads EXCEPT ![t].pc = "status_set", ![t].logged = "ERROR"]
  /\ gui' = logger_emit(gui, error_record(<<"G","U","I"," ","t","a","s","k"," ",
                                            "e","r","r","o","r",":"," ">>
                                            \o threads[t].exc))
  /\ UNCHANGED obs

\* _set_status("Ready"): self.status_var.set(text)
TaskStatusSet(t) ==
  /\ threads[t].pc = "status_set"
  /\ gui' = [gui EXCEPT !.status_var = Ready]
  /\ threads' = [threads EXCEPT ![t].pc = "dot_delete"]
  /\ UNCHANGED obs

\* _update_status_dot("Ready"): self.status_dot.delete("all")
TaskDotDelete(t) ==
  /\ threads[t].pc = "dot_delete"
  /\ gui' = [gui EXCEPT !.status_dot = "none"]
  /\ threads' = [threads EXCEPT ![t].pc = "dot_create"]
  /\ UNCHANGED obs

\* _update_status_dot("Ready"): self.status_dot.create_oval(...)
TaskDotCreate(t) ==
  /\ threads[t].pc = "dot_create"
  /\ gui' = _update_status_dot(gui, Ready)
  /\ threads' = [threads EXCEPT ![t].pc = "toggle", ![t].i = 1]
  /\ UNCHANGED obs

\* _toggle_buttons(state=tk.NORMAL): one button.config per iteration
TaskToggle(t) ==
  /\ threads[t].pc = "toggle"
  /\ gui' = [gui EXCEPT !.buttons[threads[t].i] = NORMAL]
  /\ threads' = IF threads[t].i < NumButtons
                THEN [threads EXCEPT ![t].i = threads[t].i + 1]
                ELSE [threads EXCEPT ![t].pc = "progress_set", ![t].i = 0]
  /\ UNCHANGED obs

\* self.progress_var.set(0), after which the thread ends
TaskProgressSet(t) ==
  /\ threads[t].pc = "progress_set"
  /\ gui' = [gui EXCEPT !.progress_var = 0]
  /\ threads' = [threads EXCEPT ![t] = DeadThread]
  /\ UNCHANGED obs

task(t) ==
  \/ TaskReturns(t)
  \/ TaskRaises(t)
  \/ TaskShowError(t)
  \/ TaskLogError(t)
  \/ TaskStatusSet(t)
  \/ TaskDotDelete(t)
  \/ TaskDotCreate(t)
  \/ TaskToggle(t)
  \/ TaskProgressSet(t)

(***************************************************************************)
(* Spec: the user only clicks the processing and scheduler buttons; the    *)
(* entries keep their initial texts apart from a valid source and batch    *)
(* file.  Handlers, Tk's queued callbacks and the steps of the worker      *)
(* threads interleave freely.                                              *)
(***************************************************************************)
\* the steps of a thread whose operation returns
task_returning(t) ==
  \/ TaskReturns(t)
  \/ TaskStatusSet(t)
  \/ TaskDotDelete(t)
  \/ TaskDotCreate(t)
  \/ TaskToggle(t)
  \/ TaskProgressSet(t)

Next ==
  \/ _on_process_single(OneSource, OneTitle, {Absent})
  \/ _on_process_batch(OnePath, {TRUE}, OneFile, {Absent})
  \/ _on_start_scheduler({Absent})
  \/ _on_stop_scheduler
  \/ RunAfter
  \/ \E t \in 1..MaxThreads : task(t)

Spec == Init /\ [][Next]_vars

\* SpecFair: every worker thread that can take a step eventually takes one:
\* the operation it runs ends and the thread goes through its finally block
SpecFair == Spec /\ \A t \in 1..MaxThreads : WF_vars(task(t))

(***************************************************************************)
(* SpecForms: the user edits the config and max-clip entries and clicks,   *)
(* each time after the worker thread of the previous task has ended; the   *)
(* agent operations return.                                                *)
(***************************************************************************)
Idle == Alive = {}

NextForms ==
  \/ Idle /\ TypeConfig
  \/ Idle /\ TypeMaxClips(ClipTexts)
  \/ Idle /\ _select_config
  \/ Idle /\ _on_process_single(OneSource, OneTitle, LoadedValues)
  \/ Idle /\ _on_process_batch(OnePath, {TRUE}, OneFile, LoadedValues)
  \/ Idle /\ _on_start_scheduler(LoadedValues)
  \/ Idle /\ _on_stop_scheduler
  \/ \E t \in 1..MaxThreads : task_returning(t)

SpecForms == Init /\ [][NextForms]_vars

(***************************************************************************)
(* SpecSubmit: the user submits every source text and every batch file,    *)
(* each time after the worker thread of the previous task has ended; the   *)
(* agent operations return.                                                *)
(***************************************************************************)
NextSubmit ==
  \/ Idle /\ _on_process_single(Sources, Titles, {Absent})
  \/ Idle /\ _on_process_batch(BatchPaths, BOOLEAN, BatchFiles, {Absent})
  \/ \E t \in 1..MaxThreads : task_returning(t)

SpecSubmit == Init /\ [][NextSubmit]_vars

(***************************************************************************)
(* SpecClip: the user leaves every text in the max-clip spinbox and starts *)
(* the scheduler, which applies the clip preference.                       *)
(***************************************************************************)
NextClip ==
  \/ TypeMaxClips(AllClipTexts)
  \/ _on_start_scheduler({Absent})

SpecClip == Init /\ [][NextClip]_vars

(***************************************************************************)
(* SpecLog: records reach the sink from the worker thread of a failed      *)
(* task and from the agent's own logging, while the user clicks, clears    *)
(* and copies the log and Tk runs the queued callbacks.                    *)
(***************************************************************************)
\* messages of the records the agent's code logs
LogMessages == {<<"a">>, <<" ", "b", " ", "\n">>}

\* the logger calls the sink with a record logged outside the UI thread
AgentLogs(messages) ==
  /\ CanEmit
  /\ gui.sinks # {}
  /\ \E message \in messages : gui' = logger_emit(gui, message)
  /\ UNCHANGED <<threads, obs>>

NextLog ==
  \/ Idle /\ _on_process_single(OneSource, OneTitle, {Absent})
  \/ _on_start_scheduler({Absent})
  \/ _on_stop_scheduler
  \/ _clear_logs
  \/ _copy_logs
  \/ AgentLogs(LogMessages)
  \/ RunAfter
  \/ \E t \in 1..MaxThreads : task(t)

SpecLog == Init /\ [][NextLog]_vars

(***************************************************************************)
(* SpecColor: _set_status on one text assembled from a few chunks.         *)
(***************************************************************************)
Chunks ==
  { Ready,
    <<"R","E","A","D","Y">>,
    <<"r","e","a">>,
    <<"d","y">>,
    <<"e","r","r","o","r">>,
    <<"E","r","r","o","r",":"," ","x">>,
    <<"F","a","i","l","e","d">>,
    <<"f","a">>,
    <<"i","l">>,
    <<" ">>,
    ProcessingSingle }

RECURSIVE ChunkTexts(_)
ChunkTexts(n) ==
  IF n = 0 THEN {<<>>}
  ELSE {chunk \o rest : chunk \in Chunks, rest \in ChunkTexts(n - 1)}

StatusTexts == UNION {ChunkTexts(n) : n \in 0..MaxChunks}

\* the text to set is drawn at the start and held in obs.entry
InitColor ==
  /\ gui = InitGui
  /\ threads = [t \in 1..MaxThreads |-> DeadThread]
  /\ obs \in {[NoObs EXCEPT !.entry = text] : text \in StatusTexts}

SetStatus ==
  /\ obs.handler = "none"
  /\ gui' = _set_status(gui, obs.entry)
  /\ obs' = [obs EXCEPT !.handler = "status"]
  /\ UNCHANGED threads

NextColor == SetStatus

SpecColor == InitColor /\ [][NextColor]_vars

(***************************************************************************)
(* Properties                                                              *)
(***************************************************************************)
AllWhitespace(text) == \A i \in 1..Len(text) : text[i] \in Whitespace

\* the text between its first and its last character that is not white space
Trimmed(text) ==
  LET solid == {i \in 1..Len(text) : text[i] \notin Whitespace}
  IN  IF solid = {} THEN <<>>
      ELSE SubSeq(text, CHOOSE i \in solid : \A j \in solid : i <= j,
                        CHOOSE i \in solid : \A j \in solid : i >= j)

AllEnabled == \A b \in 1..NumButtons : gui.buttons[b] = NORMAL

\* C1: when the completion handling of a task ends (its thread makes its
\* last step), the status is "Ready", every control is enabled and the
\* progress is 0; if the operation raised, the error dialog with the
\* failure's message and the error log record were produced before.
C1_RestoredWhenTaskEnds ==
  [][\A t \in 1..MaxThreads :
       (threads[t].pc = "progress_set" /\ threads'[t].pc = "dead") =>
         /\ gui'.status_var = Ready
         /\ \A b \in 1..NumButtons : gui'.buttons[b] = NORMAL
         /\ gui'.progress_var = 0
         /\ threads[t].raised =>
              /\ threads[t].dialog = [kind |-> "error", title |-> "Error",
                                      message |-> threads[t].exc]
              /\ threads[t].logged = "ERROR"]_vars

\* C2: with process actions triggered only through enabled controls, at
\* most one agent operation is running in a worker thread at any time.
C2_AtMostOneTaskInFlight ==
  Cardinality({t \in 1..MaxThreads : threads[t].pc = "run"}) <= 1

\* C3: a single-video submission whose source is empty or white space only
\* shows the "Missing input" warning, does not call _ensure_agent, changes
\* nothing of the GUI and starts no thread.
C3_BlankSourceRefused ==
  [][(obs' # obs /\ obs'.handler = "single" /\ AllWhitespace(obs'.entry)) =>
       /\ obs'.dialog = [kind |-> "warning", title |-> "Missing input", message |-> <<>>]
       /\ obs'.ensure = "none"
       /\ obs'.call = NoCall
       /\ ~obs'.dispatched
       /\ gui' = gui
       /\ threads' = threads]_vars

C3_Witness ==
  /\ obs.handler = "single"
  /\ obs.entry # <<>>
  /\ AllWhitespace(obs.entry)
  /\ obs.dialog.title = "Missing input"

\* C4: a batch submission that read a file without any non-blank line shows
\* the "Empty batch" warning and starts no thread.
C4_EmptyBatchRefused ==
  [][(obs' # obs /\ obs'.handler = "batch" /\ obs'.readable
        /\ \A k \in 1..Len(obs'.file) : AllWhitespace(obs'.file[k])) =>
       /\ obs'.dialog = [kind |-> "warning", title |-> "Empty batch", message |-> <<>>]
       /\ obs'.call = NoCall
       /\ ~obs'.dispatched
       /\ threads' = threads]_vars

C4_Witness ==
  /\ obs.handler = "batch"
  /\ obs.readable
  /\ Len(obs.file) > 0
  /\ \A k \in 1..Len(obs.file) : AllWhitespace(obs.file[k])
  /\ obs.dialog.title = "Empty batch"

\* C5: the entries passed to agent.batch_process are the lines of the file
\* that are not blank, each without its leading and trailing white space,
\* in the order of the file, a line that occurs twice kept twice.
C5_EntriesAreTrimmedLines ==
  obs.call.op = "batch_process" =>
    LET kept    == {k \in 1..Len(obs.file) : ~AllWhitespace(obs.file[k])}
        rank(k) == Cardinality({j \in kept : j <= k})
    IN  /\ Len(obs.call.entries) = Cardinality(kept)
        /\ \A k \in kept : obs.call.entries[rank(k)] = Trimmed(obs.file[k])

C5_Witness ==
  /\ obs.call.op = "batch_process"
  /\ obs.file = ExampleFile
  /\ obs.call.entries = << <<"a">>, <<"b">>, <<"c">> >>

\* C6: on a GUI that has an agent whose recorded config path is the one asked
\* for (a blank entry asking for "config.yaml"), _ensure_agent changes
\* nothing: no agent constructed, no sink added or removed, the handle, the
\* path, the sink id and the max-clip entry as they were.
C6_EnsureAgentIdempotent ==
  LET asked == IF AllWhitespace(gui.config_file_var) THEN DefaultConfig
               ELSE Trimmed(gui.config_file_var)
  IN  (gui.agent # 0 /\ gui.agent_config_path = asked) =>
        \A loaded \in LoadedValues : _ensure_agent(gui, loaded) = gui

C6_Witness ==
  /\ obs.ensure = "reused"
  /\ AllWhitespace(gui.config_file_var)
  /\ gui.agent # 0
  /\ gui.agent_config_path = DefaultConfig

\* C7: the sinks this layer has registered and not removed are none when
\* there is no agent and exactly one when there is one.
C7_OneSinkPerAgent ==
  Cardinality(gui.sinks) = IF gui.agent = 0 THEN 0 ELSE 1

\* C8 as claimed: the preference applied to an entry holding 0, a negative
\* number or no number stores 1 in the entry and in the agent's configuration.
C8_FloorOnEveryBadInput ==
  obs.applied =>
    LET got == IntVar_get(obs.clips)
    IN  (~got.ok \/ got.val <= 0) =>
          gui.max_clips_var = <<"1">> /\ gui.max_highlights = {1}

\* C8 as amended: 0 or a negative number stores 1, a text that is no number
\* stores 5, a number n >= 1 stores n; the entry and the configuration agree.
C8_FloorOrFallback ==
  obs.applied =>
    LET got == IntVar_get(obs.clips)
    IN  /\ (got.ok /\ got.val <= 0) =>
             gui.max_clips_var = <<"1">> /\ gui.max_highlights = {1}
        /\ ~got.ok =>
             gui.max_clips_var = <<"5">> /\ gui.max_highlights = {5}
        /\ (got.ok /\ got.val >= 1) =>
             gui.max_highlights = {got.val} /\ IntVar_get(gui.max_clips_var).val = got.val

C8_Witness ==
  /\ obs.applied
  /\ obs.clips = <<"1", "x">>
  /\ gui.max_highlights = {FallbackClips}

\* C9: when a task has been dispatched or the scheduler started, the agent's
\* video.max_highlights was written by that handler, is the number in the
\* max-clip entry and is at least 1.
C9_ClipsWrittenBeforeLaunch ==
  (obs.dispatched \/ obs.call.op = "scheduler.start") =>
    /\ obs.applied
    /\ gui.agent # 0
    /\ IntVar_get(gui.max_clips_var).ok
    /\ IntVar_get(gui.max_clips_var).val >= 1
    /\ gui.max_highlights = {IntVar_get(gui.max_clips_var).val}

C9_Witness ==
  /\ obs.dispatched
  /\ obs.clips = <<"-", "2">>
  /\ gui.max_highlights = {1}
  /\ \E t \in 1..MaxThreads : threads[t].pc = "run"

\* C10: the colour of the status dot is red when the status text contains
\* "error" or "fail" in any case, else green when it contains "ready", else
\* amber; "Ready" is green and "Processing single video..." amber.
C10_ColorByPriority ==
  LET low   == lower(gui.status_var)
      error == contains(low, <<"e","r","r","o","r">>) \/ contains(low, <<"f","a","i","l">>)
      ready == contains(low, <<"r","e","a","d","y">>)
  IN  /\ error => gui.status_dot = Red
      /\ (~error /\ ready) => gui.status_dot = Green
      /\ (~error /\ ~ready) => gui.status_dot = Amber
      /\ gui.status_var = Ready => gui.status_dot = Green
      /\ gui.status_var = ProcessingSingle => gui.status_dot = Amber

C10_Witness ==
  /\ obs.handler = "status"
  /\ gui.status_var = <<"R","E","A","D","Y">> \o <<"E","r","r","o","r",":"," ","x">>
  /\ gui.status_dot = Red

\* C11: the stop handler run when no agent was ever constructed does nothing:
\* no scheduler.stop call, no agent constructed, no thread started, and the
\* status, the dot, the progress, the sinks, the controls and every other
\* field of the GUI as they were.
C11_StopWithoutAgentIsNoOp ==
  [][(obs' # obs /\ obs'.handler = "stop" /\ gui.made = 0) =>
       /\ obs'.call = NoCall
       /\ gui'.made = 0
       /\ gui'.agent = 0
       /\ gui'.status_var = gui.status_var
       /\ gui'.status_dot = gui.status_dot
       /\ gui'.progress_var = gui.progress_var
       /\ gui'.log_sink_id = gui.log_sink_id
       /\ gui'.sinks = gui.sinks
       /\ gui'.buttons = gui.buttons
       /\ gui' = gui
       /\ threads' = threads]_vars

\* stop was clicked on a GUI without agent whose config entry was edited
C11_Witness ==
  /\ obs.handler = "stop"
  /\ obs.call = NoCall
  /\ gui.made = 0
  /\ gui.config_file_var = <<" ">> \o OtherConfig

\* the concatenation of a sequence of texts
RECURSIVE Flat(_)
Flat(texts) == IF texts = <<>> THEN <<>> ELSE Head(texts) \o Flat(Tail(texts))

\* the line a record is displayed as
Line(message) == Trimmed(message) \o <<"\n">>

IsSuffix(s, t) ==
  /\ Len(s) <= Len(t)
  /\ SubSeq(t, Len(t) - Len(s) + 1, Len(t)) = s

\* C12: the records passed to the sink are displayed in that order: the
\* callbacks waiting on Tk's queue are the lines of the latest records, one
\* callback for each record and the oldest first, and the text of the log
\* pane is the lines of the records before them, in the order of emission
\* (its end, when the log was cleared), each line ended by a newline.
C12_LogInEmissionOrder ==
  LET n == Len(gui.emitted)
      q == Len(gui.after)
  IN  /\ q <= n
      /\ \A k \in 1..q : gui.after[k] = Line(gui.emitted[n - q + k])
      /\ IsSuffix(gui.log_widget,
                  Flat([k \in 1..(n - q) |-> Line(gui.emitted[k])]))

\* a record of the agent and then the error record of a failed task were
\* logged, the log was copied when it held the first line only, and both
\* lines are displayed, the first one first
C12_Witness ==
  /\ Len(gui.emitted) = 2
  /\ gui.emitted[1] \in LogMessages
  /\ Head(gui.emitted[2]) = "E"
  /\ gui.after = <<>>
  /\ gui.clipboard = Trimmed(gui.emitted[1])
  /\ gui.log_widget = Line(gui.emitted[1]) \o Line(gui.emitted[2])

\* the submission the handler read from the entries and the file is one it
\* refuses: a blank source, a blank batch path, a batch file that cannot be
\* read, a batch file without a non-blank line
Refused(o) ==
  \/ o.handler = "single" /\ AllWhitespace(o.entry)
  \/ /\ o.handler = "batch"
     /\ \/ AllWhitespace(o.entry)
        \/ ~o.readable
        \/ \A k \in 1..Len(o.file) : AllWhitespace(o.file[k])

\* C13: a refused submission shows a dialog and changes nothing else: the
\* agent, the recorded config path, the sink, the status, the controls, the
\* progress and the max-clip entry are as before, no agent is constructed
\* and no thread started.
C13_RefusalChangesNothing ==
  [][(obs' # obs /\ Refused(obs')) =>
       /\ obs'.dialog.kind \in {"warning", "error"}
       /\ gui'.agent = gui.agent
       /\ gui'.made = gui.made
       /\ gui'.agent_config_path = gui.agent_config_path
       /\ gui'.log_sink_id = gui.log_sink_id
       /\ gui'.sinks = gui.sinks
       /\ gui'.status_var = gui.status_var
       /\ gui'.status_dot = gui.status_dot
       /\ gui'.buttons = gui.buttons
       /\ gui'.progress_var = gui.progress_var
       /\ gui'.max_clips_var = gui.max_clips_var
       /\ gui'.max_highlights = gui.max_highlights
       /\ threads' = threads]_vars

\* a batch file without entries was refused on a GUI that has an agent
C13_Witness ==
  /\ obs.handler = "batch"
  /\ obs.readable
  /\ Len(obs.file) = 2
  /\ obs.dialog.title = "Empty batch"
  /\ gui.agent # 0
  /\ gui.status_var = Ready

\* what the window displays
Display(g) == <<g.log_widget, g.status_var, g.status_dot, g.buttons, g.progress_var>>

\* the step is one of a worker thread
WorkerStep == \E t \in 1..MaxThreads : threads[t].pc # "dead" /\ threads'[t] # threads[t]

\* C14: no step of a worker thread changes the log text, the status text,
\* the colour of the dot, the state of a control or the progress; a worker
\* only adds callbacks to Tk's queue.
C14_OnlyUIThreadMutatesDisplay ==
  [][WorkerStep => Display(gui') = Display(gui)]_vars

\* C15: while an agent operation is running in a worker thread, every
\* control is disabled.
C15_DisabledWhileTaskRuns ==
  (\E t \in 1..MaxThreads : threads[t].pc = "run") =>
    \A b \in 1..NumButtons : gui.buttons[b] = DISABLED

\* C16: whenever a control is disabled, later no agent operation is running,
\* every control is enabled and the status is "Ready".
C16_EventuallyReady ==
  (\E b \in 1..NumButtons : gui.buttons[b] = DISABLED)
    ~> (/\ \A t \in 1..MaxThreads : threads[t].pc # "run"
        /\ AllEnabled
        /\ gui.status_var = Ready)

\* C17: at most one agent has its scheduler started, and after a click on
\* Stop Scheduler no scheduler is started.
C17_AtMostOneSchedulerStarted ==
  /\ Cardinality(gui.started) <= 1
  /\ obs.handler = "stop" => gui.started = {}

\* the step is one of the UI thread
UIStep == \A t \in 1..MaxThreads : threads[t].pc # "dead" => threads'[t] = threads[t]

\* C18: a handler that applies the clip preference when the max-clip entry
\* holds a number n >= 1 writes n to the agent's video.max_highlights, also
\* when the handler constructs the agent.
C18_EnteredCountIsWritten ==
  [][(UIStep /\ obs'.applied
        /\ IntVar_get(gui.max_clips_var).ok /\ IntVar_get(gui.max_clips_var).val >= 1) =>
       gui'.max_highlights = {IntVar_get(gui.max_clips_var).val}]_vars

====
